---- MODULE Spec2Model ----
(***************************************************************************)
(* Model of cosmic_ray_detector: the volatile detector buffer              *)
(* (src/src/detector.rs) and the main program (src/src/main.rs): adaptive  *)
(* sizing, log set-up and the reset / sleep / check / log loop.            *)
(*                                                                         *)
(* Representation notes.                                                   *)
(*  - Vec<u8> detector_mass is kept sparsely: a record                     *)
(*    [fill, dev] stands for the vector whose byte i is dev[i] when        *)
(*    i \in DOMAIN dev and fill otherwise.  The vectors the sizer          *)
(*    builds have 10^8 bytes, a dense function is not an option.           *)
(*  - Strings are sequences of one-character strings, so that format!      *)
(*    and the decimal rendering of integers are computed, not assumed.     *)
(*  - u64/usize subtraction is modelled with its overflow behaviour:       *)
(*    panic when overflow checks are compiled in, wrap-around otherwise.   *)
(***************************************************************************)
EXTENDS Integers, Sequences, FiniteSets, TLC

\* ------------------------------------------------------------------------
\* Bounds of the model
\* ------------------------------------------------------------------------
MaxCap == 3
MaxChecks == 2
MaxIter == 5
NumWorkers == 2
MaxLate == 1

\* ------------------------------------------------------------------------
\* Program constants
\* ------------------------------------------------------------------------
SWAP_DELTA_THRESHOLD == 10000000
FREE_MEM_THRESHOLD == 50000000
FillValue == 42
DetectorDefault == 0

\* Option<usize> / Option<u8>: Some(n) is n, None is -1.
None == -1

\* Byte values used as inputs (u8 samples: sentinel, a single-bit flip,
\* the commit value written by main, the maximum).
ByteSamples == {0, 1, 42, 255}

VARIABLES
    argv,                      \* the command line: -m, -d, --latitude, --longitude, -v given or not
    conf,                      \* Args: memory_to_occupy, verbose, delay, latitude, longitude
    overflow_checks,           \* build flavour: "on" (overflow panics), "off" (overflow wraps),
                               \* "unknown" until the first overflow shows which
    pc,                        \* position of main / of the detector harness
    size, total_size, increment, previous_swap_usage,
    sys_info,                  \* last sampled metrics
    init_detectors,            \* Vec<Detector> held by the sizer
    detector,                  \* the monitored Detector
    file,                      \* log file: opened, lines written, lines synced, flushed flag
    unix_timestamp, end_check_time, log_entry_str,
    total_checks, checks_since_last_bitflip, everything_is_fine,
    clock,                     \* wall clock (ms)
    stdout_ok,                 \* whether writes to stdout succeed
    workers,                   \* the parallel for_each of Detector::write in progress
    hist                       \* observation record (history variable)

vars == <<argv, conf, overflow_checks, pc, size, total_size, increment, previous_swap_usage,
          sys_info, init_detectors, detector, file, unix_timestamp, end_check_time,
          log_entry_str, total_checks, checks_since_last_bitflip, everything_is_fine,
          clock, stdout_ok, workers, hist>>

\* ------------------------------------------------------------------------
\* Detector (src/src/detector.rs)
\* ------------------------------------------------------------------------

\* Byte i of a detector.
Element(det, i) ==
    IF i \in DOMAIN det.detector_mass.dev
    THEN det.detector_mass.dev[i]
    ELSE det.detector_mass.fill

\* vec![value; n]
VecFilled(value) == [fill |-> value, dev |-> [j \in {} |-> value]]

\* Detector::new
DetectorNew(default, initial_capacity) ==
    [default |-> default,
     capacity |-> initial_capacity,
     detector_mass |-> VecFilled(default)]

\* Detector::write: every element is overwritten with value.
DetectorWrite(det, value) ==
    [det EXCEPT !.detector_mass = VecFilled(value)]

\* Variant of reset that zeroes the memory whatever the default value is.
DetectorReset_Zeroes(det) == DetectorWrite(det, 0)

\* Detector::reset
DetectorReset(det) == DetectorWrite(det, det.default)

\* Variant of the scan predicate that compares with 0 instead of self.default.
ChangedIndices_Zero(det) ==
    {i \in 0 .. (det.capacity - 1) : Element(det, i) # 0}

\* The indices the scan can stop at: those whose byte differs from default.
\* (When fill = default only the deviating indices can differ.)
ChangedIndices(det) ==
    LET cand == IF det.detector_mass.fill = det.default
                THEN DOMAIN det.detector_mass.dev
                ELSE 0 .. (det.capacity - 1)
    IN {i \in cand : Element(det, i) # det.default}

\* Detector::find_index_of_changed_element: position_any returns any
\* matching index, None when there is none.  The set of possible results.
FindIndexResults(det) ==
    IF ChangedIndices(det) = {} THEN {None} ELSE ChangedIndices(det)

\* Detector::is_intact for a given outcome r of the scan it performs.
IsIntactOf(r) == ~(r # None)

\* Detector::get
DetectorGet(det, index) ==
    IF index < det.capacity THEN Element(det, index) ELSE None

\* An external change of byte i to v (a bit-flip, or its reversal).
StoreByte(det, i, v) ==
    LET m == det.detector_mass
        keep == (DOMAIN m.dev) \ {i}
        dom == IF v = m.fill THEN keep ELSE keep \cup {i}
    IN [det EXCEPT !.detector_mass =
          [fill |-> m.fill,
           dev |-> [j \in dom |-> IF j = i THEN v ELSE m.dev[j]]]]

\* ------------------------------------------------------------------------
\* Text: strings are sequences of characters
\* ------------------------------------------------------------------------
DigitChars == <<"0", "1", "2", "3", "4", "5", "6", "7", "8", "9">>

\* Display of an unsigned integer ({} in format!).
RECURSIVE ToDecimal(_)
ToDecimal(n) ==
    IF n < 10 THEN <<DigitChars[n + 1]>>
    ELSE ToDecimal(n \div 10) \o <<DigitChars[(n % 10) + 1]>>

\* The value of each digit character.
DigitOf == [c \in {DigitChars[k] : k \in 1 .. 10} |->
              (CHOOSE k \in 1 .. 10 : DigitChars[k] = c) - 1]
IsDigit(c) == c \in DOMAIN DigitOf
DigitValue(c) == DigitOf[c]

\* The number a field denotes, -1 when the field is not a decimal numeral.
RECURSIVE ParseDigits(_, _)
ParseDigits(f, acc) ==
    IF f = <<>> THEN acc
    ELSE IF ~IsDigit(Head(f)) THEN -1
    ELSE ParseDigits(Tail(f), acc * 10 + DigitValue(Head(f)))
ParseDecimal(f) == IF f = <<>> THEN -1 ELSE ParseDigits(f, 0)

\* usize::MAX of the 64-bit targets.
UsizeMax(w) == 2^w - 1

\* str::parse::<usize>: an optional + sign, then decimal digits only; a
\* numeral above usize::MAX is an error (PosOverflow).  Numerals of at most
\* 9 digits are below 2^64 without looking at the bound.
ParseUsize(t) ==
    LET d == IF t # <<>> /\ Head(t) = "+" THEN Tail(t) ELSE t
        v == ParseDecimal(d)
    IN IF Len(d) <= 9 THEN v
       ELSE IF v > UsizeMax(64) THEN -1 ELSE v

\* str::parse::<NonZeroUsize>: as parse::<usize>, zero being an error.
ParseNonZeroUsize(t) == IF ParseUsize(t) = 0 THEN -1 ELSE ParseUsize(t)

\* (si_prefix_factor * bit_size) as usize for the SI prefix c
\* (config.rs lines 66-86), 0 standing for the two error returns.
SizeFactor(c, last) ==
    LET si == CASE c = "k" -> 1000
                [] c = "M" -> 1000000
                [] c = "G" -> 1000000000
                [] c = "T" -> 1000000 * 1000000
                [] c = "P" -> 1000000 * 1000000 * 1000
                [] OTHER -> 0
    IN IF si = 0 THEN 0 ELSE IF last = "B" THEN si ELSE si \div 8

\* number * factor does not fit a usize (config.rs line 91).  Products of
\* at most 2^31 - 1 fit without looking at the bound.
MulOverflows(number, factor) ==
    IF number <= 2147483647 \div factor THEN FALSE
    ELSE number * factor > UsizeMax(64)

\* number * factor on usize: with overflow checks a product that does not
\* fit panics (-2 here), without them it wraps.
UsizeMul(number, factor, checks) ==
    IF ~MulOverflows(number, factor) THEN number * factor
    ELSE IF checks = "on" THEN -2
    ELSE (number * factor) % (UsizeMax(64) + 1)

\* config::parse_size_string in a build with (checks = "on") or without
\* overflow checks: Ok(n) is n, every Err is -1, a panic is -2.
ParseSizeString(size_string, checks) ==
    IF ParseNonZeroUsize(size_string) # -1 THEN ParseNonZeroUsize(size_string)
    ELSE IF size_string = <<>> THEN -1
    ELSE LET len == Len(size_string)
             last == size_string[len]
         IN IF last = "0" THEN -1
            ELSE IF (last # "B" /\ last # "b") \/ len < 2 THEN -1
            ELSE LET factor == SizeFactor(size_string[len - 1], last)
                     number == ParseUsize(SubSeq(size_string, 1, len - 2))
                 IN IF factor = 0 \/ number = -1 THEN -1
                    ELSE IF UsizeMul(number, factor, checks) = 0 THEN -1
                    ELSE UsizeMul(number, factor, checks)

\* main::mem_size panics (line 238, pop().unwrap() on the emptied unit
\* list) when the size as f32 is still above 1024 after four divisions by
\* 1024, that is when mem_size as f32 > 2^50: for every
\* n > 2^50 + 2^26 = 16777217 * 67108864 (a u64 is rounded to the nearest
\* f32, which are 2^27 apart there, ties to even).
MemSizePanics(n) ==
    LET q == n \div 67108864
        r == n % 67108864
    IN q > 16777217 \/ (q = 16777217 /\ r > 0)

Comma == <<",">>
Newline == <<"\n">>

\* format!("{},{},,,{},{}\n", unix_timestamp.as_millis(), delay, latitude, longitude)
StartEntryStr(ts, delay, lat, lon) ==
    ToDecimal(ts) \o Comma \o ToDecimal(delay) \o Comma \o Comma \o Comma
        \o lat \o Comma \o lon \o Newline

\* format!("{},{},{},{},{},{},{}\n", unix_timestamp.as_millis(), delay,
\*         checks_since_last_bitflip, flag, end_check_time.as_millis(), latitude, longitude)
LogEntryStr(ts, delay, checks, flag, endts, lat, lon) ==
    ToDecimal(ts) \o Comma \o ToDecimal(delay) \o Comma \o ToDecimal(checks) \o Comma
        \o ToDecimal(flag) \o Comma \o ToDecimal(endts) \o Comma
        \o lat \o Comma \o lon \o Newline

\* ------------------------------------------------------------------------
\* Inputs
\* ------------------------------------------------------------------------
\* Values of -m on the command line: refused ones (zero, zero with a
\* unit, no unit letter) and a plain byte count.
MemorySamples ==
    {<<"0">>, <<"0", "k", "B">>, <<"2", "k">>, ToDecimal(MaxCap)}
\* -v on the command line: left out.  Args::parse gives verbose = true
\* with and without it.
VerboseSamples == {FALSE}
DelaySamples == {3}
\* Whether --file-path stands before -m on the command line.
PathFirstSamples == BOOLEAN
LatitudeSamples == {<<"-", "1", ".", "5">>}
LongitudeSamples == {<<"1", "8">>}
StartClocks == {9}
\* Times the wall clock is set to while the program runs (SystemTime is
\* not monotonic): before the Unix epoch, and back before the program's start.
ClockSets == {-1, 5}

\* Memory / swap readings of the metrics provider (bytes).
\* (under the floor, exactly the floor, four times the floor with an odd half)
AvailSamples == {40000000, 50000000, 200000003}
SwapTotalSamples == {0, 1000000000}
SwapUsedSamples == {0, 20000000}
TotalMemory == 1000000000

\* What sysinfo's System holds after a refresh of the memory figures.
Readings(total_swap) ==
    {[total_memory |-> TotalMemory, free_memory |-> a, available_memory |-> a,
      used_memory |-> TotalMemory - a, used_swap |-> u, total_swap |-> total_swap] :
        a \in AvailSamples, u \in {x \in SwapUsedSamples : x <= total_swap}}

\* The machine the whole program is started on: what line 28 samples.
FirstReadings ==
    {r \in Readings(1000000000) : r.available_memory = 200000003 /\ r.used_swap = 20000000}

\* ------------------------------------------------------------------------
\* Log file (std::fs::File opened with append)
\* ------------------------------------------------------------------------
\* content: the bytes this process has written; synced: how many of them a
\* completed sync_data has made durable.
FileClosed == [opened |-> FALSE, content |-> <<>>, synced |-> 0]

\* Numbers of bytes File::write may report as written for a buffer of len
\* bytes: all of them, or a first part only (Ok(n) with n < len).
WriteAccepts(len) == {n \in {7, len} : n <= len}

\* File::write returning Ok(n): the first n bytes of the buffer are appended.
FileWrite(f, bytes, n) == [f EXCEPT !.content = @ \o SubSeq(bytes, 1, n)]

\* File::flush: std::fs::File has no user-space buffer, nothing changes.
FileFlush(f) == f

\* Variant of sync_data that makes nothing durable.
FileSyncData_Noop(f) == f

\* File::sync_data: everything written so far becomes durable.
FileSyncData(f) == [f EXCEPT !.synced = Len(f.content)]

\* ------------------------------------------------------------------------
\* Adaptive sizing (src/src/main.rs, lines 35-99 and 225-229)
\* ------------------------------------------------------------------------

\* The u64 / usize that arithmetic without overflow checks leaves: x modulo 2^64.
Wrap64(x) == IF x >= 0 /\ x <= 2147483647 THEN x ELSE x % (UsizeMax(64) + 1)

\* x is above u64::MAX.
Exceeds64(x) == IF x <= 2147483647 THEN FALSE ELSE x > UsizeMax(64)

\* x as i64: a u64 of 2^63 or more turns negative.
AsI64(x) == IF x <= 2147483647 THEN x ELSE IF x >= 2^63 THEN x - 2^64 ELSE x

\* used_swap() - previous_swap_usage on u64 with used < previous.
SwapSubOverflows(used, prev) == used < prev

\* sys_info.used_swap() - previous_swap_usage > SWAP_DELTA_THRESHOLD (line
\* 56), for a build without overflow checks when used < previous: the
\* difference is then 2^64 - (previous - used).
SwapGrew(used, prev) ==
    IF used >= prev THEN used - prev > SWAP_DELTA_THRESHOLD
    ELSE IF prev - used <= 2147483647 THEN TRUE
    ELSE Wrap64(used - prev) > SWAP_DELTA_THRESHOLD

\* available_memory() as i64 - FREE_MEM_THRESHOLD as i64 leaves the i64 range.
MemorySubOverflows(avail) ==
    IF avail <= 2147483647 THEN FALSE
    ELSE AsI64(avail) - FREE_MEM_THRESHOLD < 0 - 2^63

\* 0 > (available_memory() as i64 - FREE_MEM_THRESHOLD as i64) (line 74);
\* in a build without overflow checks a difference under -2^63 wraps to a
\* positive value.
MemoryLow(avail) ==
    ~MemorySubOverflows(avail) /\ 0 > AsI64(avail) - FREE_MEM_THRESHOLD

\* Whether the probe in init_detectors[0] is dropped in this iteration
\* (lines 54-56 and 74), as a build without overflow checks decides it.
ProbeRejected(r, prev) ==
    IF r.total_swap > 0 THEN SwapGrew(r.used_swap, prev)
    ELSE MemoryLow(r.available_memory)

\* The subtraction of the test of line 56 or 74 overflows.
TestOverflows(r, prev) ==
    IF r.total_swap > 0 THEN SwapSubOverflows(r.used_swap, prev)
    ELSE MemorySubOverflows(r.available_memory)

\* if FREE_MEM_THRESHOLD > increment as u64 { break; }
ShouldBreak(inc) == FREE_MEM_THRESHOLD > inc

\* size = size - increment
NextProbeSize(sz, inc) == sz - inc

\* if rejected { total_size -= size; }
TotalAfterDecision(reject, total, sz) == IF reject THEN total - sz ELSE total

\* total_memory() - used_memory() of lines 226 and 227 underflows.
StatsSubOverflows(r) == r.used_memory > r.total_memory

\* print_detector_stats (lines 225-229) panics, stdout taking its lines:
\* on the subtraction in a build with overflow checks, or in mem_size of
\* one of the six values it formats.
PrintDetectorStatsPanics(r, sz, checks) ==
    \/ StatsSubOverflows(r) /\ checks = "on"
    \/ MemSizePanics(r.total_memory)
    \/ MemSizePanics(r.free_memory)
    \/ MemSizePanics(r.available_memory)
    \/ MemSizePanics(r.used_memory)
    \/ MemSizePanics(Wrap64(r.total_memory - r.used_memory))
    \/ MemSizePanics(sz)

\* The detector the program builds: Detector::new(0, size) then write(42).
FilledDetector(sz) == DetectorWrite(DetectorNew(DetectorDefault, sz), FillValue)

\* No for_each in progress.
NoWorkers == [value |-> 0, owner |-> [i \in {} |-> 0], pending |-> {}]

\* ------------------------------------------------------------------------
\* Initial state
\* ------------------------------------------------------------------------
Hist0 ==
    [sizer_runs |-> 0, iterations |-> 0,
     resets |-> 0, checks |-> 0, finds |-> 0, gets |-> 0, appends |-> 0,
     last_find |-> None, io_error |-> "none", last_io |-> "none",
     reported |-> None,
     fails |-> 0, cycle_checks |-> 0, armed_at |-> 0, writers |-> {},
     short_write |-> FALSE, before_write |-> 0, usage |-> "none", late |-> 0,
     op |-> "none", prev_op |-> "none", was_intact |-> TRUE, last_intact |-> TRUE]

Terminal == {"usage_err", "exit_err", "panicked", "killed"}

\* sys_info before line 28 has run.
NoSample == [total_memory |-> 0, free_memory |-> 0, available_memory |-> 0,
             used_memory |-> 0, used_swap |-> 0, total_swap |-> 0]

\* conf before Args::parse has run.
NoArgs == [memory_to_occupy |-> 0, verbose |-> FALSE, delay_between_checks |-> 0,
           latitude |-> <<>>, longitude |-> <<>>]

Init ==
    /\ argv \in {a \in [memory_to_occupy : MemorySamples,
                          verbose : VerboseSamples,
                          delay_between_checks : DelaySamples,
                          latitude : LatitudeSamples,
                          longitude : LongitudeSamples,
                          path_first : PathFirstSamples] :
                    \* the order of the two options shows only when -m is refused
                    ParseSizeString(a.memory_to_occupy, "on") >= 0 => a.path_first}
    /\ conf = NoArgs
    /\ overflow_checks = "unknown"
    /\ pc = "start"
    /\ size = 0
    /\ total_size = 0
    /\ increment = 0
    /\ previous_swap_usage = 0
    /\ sys_info = NoSample
    /\ init_detectors = <<>>
    /\ detector = DetectorNew(DetectorDefault, 0)
    /\ file = FileClosed
    /\ unix_timestamp = 0
    /\ end_check_time = 0
    /\ log_entry_str = <<>>
    /\ total_checks = 0
    /\ checks_since_last_bitflip = 0
    /\ everything_is_fine = TRUE
    /\ clock \in StartClocks
    /\ stdout_ok = TRUE
    /\ workers = NoWorkers
    /\ hist = Hist0

\* ------------------------------------------------------------------------
\* main, start-up (src/src/main.rs, lines 18-127)
\* ------------------------------------------------------------------------

\* The build flavours compatible with what has been observed so far.
Flavours == IF overflow_checks = "unknown" THEN {"on", "off"} ELSE {overflow_checks}

\* Args::parse (config.rs lines 11-41) takes the options in the order of
\* the command line and stops at the first that fails.  -m goes through
\* parse_size_string and gives a NonZeroUsize; --file-path goes through
\* parse_logging_file_path, which prints with println! (a panic when
\* stdout does not take the line) and creates the file when it is missing;
\* verbose is a flag with default_value_t = true, so it is true with and
\* without -v.  result: "ok", a usage error for the size or the path (exit
\* 2), or "panic".
ArgsParse(av, path_ok, out_ok, checks) ==
    LET m == ParseSizeString(av.memory_to_occupy, checks)
        sz == IF m = -1 THEN "usage_size" ELSE IF m = -2 THEN "panic" ELSE "ok"
        path == IF ~out_ok THEN "panic" ELSE IF ~path_ok THEN "usage_path" ELSE "ok"
        first == IF av.path_first THEN path ELSE sz
        second == IF av.path_first THEN sz ELSE path
        result == IF first # "ok" THEN first ELSE second
    IN [result |-> result,
        conf |-> IF result # "ok" THEN NoArgs
                 ELSE [memory_to_occupy |-> m,
                       verbose |-> TRUE,
                       delay_between_checks |-> av.delay_between_checks,
                       latitude |-> av.latitude,
                       longitude |-> av.longitude]]

\* Lines 19-31: parse the arguments, read them, sample the metrics (line
\* 28) and take the swap baseline (line 29).
Start ==
    /\ pc = "start"
    /\ \E path_ok \in BOOLEAN, fl \in Flavours :
        LET parsed == ArgsParse(argv, path_ok, stdout_ok, fl) IN
        /\ overflow_checks' =
              IF ParseSizeString(argv.memory_to_occupy, "on")
                    # ParseSizeString(argv.memory_to_occupy, "off")
              THEN fl ELSE overflow_checks
        /\ IF parsed.result = "panic"
           THEN /\ pc' = "panicked"
                /\ UNCHANGED <<conf, size, total_size, sys_info, previous_swap_usage, hist>>
           ELSE IF parsed.result # "ok"
           THEN /\ pc' = "usage_err"
                /\ hist' = [hist EXCEPT !.usage =
                                IF parsed.result = "usage_size" THEN "size" ELSE "path"]
                /\ UNCHANGED <<conf, size, total_size, sys_info, previous_swap_usage>>
           ELSE \E r \in FirstReadings :
                /\ conf' = parsed.conf
                /\ size' = parsed.conf.memory_to_occupy
                /\ total_size' = parsed.conf.memory_to_occupy
                /\ sys_info' = r
                /\ previous_swap_usage' = r.used_swap
                /\ pc' = IF parsed.conf.verbose THEN "settings" ELSE "alloc"
                /\ UNCHANGED hist
    /\ UNCHANGED <<argv, increment, init_detectors, detector, file,
                   unix_timestamp, end_check_time, log_entry_str, total_checks,
                   checks_since_last_bitflip, everything_is_fine, clock, stdout_ok, workers>>

\* Lines 33-50 (verbose only): the settings banner and, when size == 0, the
\* first probe of half the available memory (as sampled at line 28).  size
\* comes from a NonZeroUsize, so the test of line 35 is false in every run.
Settings ==
    /\ pc = "settings"
    /\ IF ~stdout_ok
       THEN /\ pc' = "panicked"
            /\ UNCHANGED <<size, total_size, increment, init_detectors, hist, overflow_checks>>
       ELSE IF size = 0
       THEN \* line 44 reads the sample of line 28
            LET half == sys_info.available_memory \div 2 IN
            \E fl \in (IF StatsSubOverflows(sys_info) THEN Flavours ELSE {overflow_checks}) :
            /\ overflow_checks' = fl
            /\ size' = half
            /\ total_size' = half
            /\ increment' = half
            /\ hist' = [hist EXCEPT !.sizer_runs = @ + 1]
            /\ IF PrintDetectorStatsPanics(sys_info, half, fl)
               THEN \* print_detector_stats (line 47)
                    /\ pc' = "panicked"
                    /\ UNCHANGED init_detectors
               ELSE /\ init_detectors' = <<FilledDetector(half)>>
                    /\ pc' = "sizer_loop"
       ELSE /\ pc' = "announce"
            /\ UNCHANGED <<size, total_size, increment, init_detectors, hist, overflow_checks>>
    /\ UNCHANGED <<argv, conf, sys_info, previous_swap_usage, detector, file,
                   unix_timestamp, end_check_time, log_entry_str, total_checks,
                   checks_since_last_bitflip, everything_is_fine, clock, stdout_ok, workers>>

\* Lines 51-96: one pass of the sizing loop, r being what
\* refresh_specifics samples at line 52 (total_swap included).
SizerStep(r) ==
    LET inc == increment \div 2
        reject == ProbeRejected(r, previous_swap_usage)
        dets1 == IF reject THEN Tail(init_detectors) ELSE init_detectors
        tot0 == TotalAfterDecision(reject, total_size, size)
        size1 == NextProbeSize(size, inc)
        tot1 == Wrap64(tot0) + Wrap64(size1)
        overflows == \/ TestOverflows(r, previous_swap_usage)
                     \/ reject /\ total_size < size
                     \/ size < inc
                     \/ Exceeds64(tot1)
                     \/ StatsSubOverflows(r)
    IN
    /\ pc = "sizer_loop"
    /\ hist.iterations < MaxIter
    /\ sys_info' = r
    /\ increment' = inc
    /\ hist' = [hist EXCEPT !.iterations = @ + 1]
    /\ \E fl \in (IF overflows THEN Flavours ELSE {overflow_checks}) :
       /\ overflow_checks' = fl
       /\ IF fl = "on" /\ TestOverflows(r, previous_swap_usage)
          THEN \* line 56 or 74: attempt to subtract with overflow
               /\ pc' = "panicked"
               /\ UNCHANGED <<size, total_size, init_detectors>>
          ELSE IF reject /\ init_detectors = <<>>
          THEN \* lines 59, 77: remove(0) on an empty Vec
               /\ pc' = "panicked"
               /\ UNCHANGED <<size, total_size, init_detectors>>
          ELSE IF fl = "on" /\ reject /\ total_size < size
          THEN \* lines 60, 78: total_size -= size
               /\ pc' = "panicked"
               /\ init_detectors' = dets1
               /\ UNCHANGED <<size, total_size>>
          ELSE IF ~reject /\ ShouldBreak(inc)
          THEN /\ pc' = "sizer_done"
               /\ UNCHANGED <<size, total_size, init_detectors>>
          ELSE IF fl = "on" /\ (size < inc \/ Exceeds64(tot1))
          THEN \* lines 69-70, 87-88: size - increment, total_size += size
               /\ pc' = "panicked"
               /\ init_detectors' = dets1
               /\ UNCHANGED <<size, total_size>>
          ELSE /\ size' = Wrap64(size1)
               /\ total_size' = Wrap64(tot1)
               /\ IF stdout_ok /\ ~PrintDetectorStatsPanics(r, Wrap64(size1), fl)
                  THEN /\ init_detectors' = <<FilledDetector(Wrap64(size1))>> \o dets1
                       /\ pc' = "sizer_loop"
                  ELSE \* print_detector_stats (line 91)
                       /\ init_detectors' = dets1
                       /\ pc' = "panicked"
    /\ UNCHANGED <<argv, conf, previous_swap_usage, detector, file,
                   unix_timestamp, end_check_time, log_entry_str, total_checks,
                   checks_since_last_bitflip, everything_is_fine, clock, stdout_ok, workers>>

\* A pass of the sizing loop under any metrics the provider can report.
SizerIteration == \E ts \in SwapTotalSamples : \E r \in Readings(ts) : SizerStep(r)

\* Lines 98-99: size = total_size; the probes go out of scope.
SizerDone ==
    /\ pc = "sizer_done"
    /\ size' = total_size
    /\ init_detectors' = <<>>
    /\ pc' = "announce"
    /\ UNCHANGED <<argv, conf, overflow_checks, total_size, increment, previous_swap_usage,
                   sys_info, detector, file, unix_timestamp, end_check_time,
                   log_entry_str, total_checks, checks_since_last_bitflip,
                   everything_is_fine, clock, stdout_ok, workers, hist>>

\* Lines 100-111 (verbose only): the rest of the banner, stdout().flush()?.
Announce ==
    /\ pc = "announce"
    /\ IF ~stdout_ok \/ MemSizePanics(size)
       THEN \* println! at line 100 panics, or mem_size(size) in its arguments
            /\ pc' = "panicked"
            /\ UNCHANGED stdout_ok
       ELSE \/ /\ pc' = "alloc"
               /\ UNCHANGED stdout_ok
            \/ \* stdout is lost after the println!s: flush()? at line 111 returns Err
               /\ pc' = "exit_err"
               /\ stdout_ok' = FALSE
    /\ UNCHANGED <<argv, conf, overflow_checks, size, total_size, increment, previous_swap_usage,
                   sys_info, init_detectors, detector, file, unix_timestamp,
                   end_check_time, log_entry_str, total_checks,
                   checks_since_last_bitflip, everything_is_fine, clock, workers, hist>>

\* Lines 118-127: allocate the detector and commit its pages.
Alloc ==
    /\ pc = "alloc"
    /\ detector' = FilledDetector(size)
    /\ pc' = IF conf.verbose /\ ~stdout_ok THEN "panicked" ELSE "open"
    /\ UNCHANGED <<argv, conf, overflow_checks, size, total_size, increment, previous_swap_usage,
                   sys_info, init_detectors, file, unix_timestamp, end_check_time,
                   log_entry_str, total_checks, checks_since_last_bitflip,
                   everything_is_fine, clock, stdout_ok, workers, hist>>

\* ------------------------------------------------------------------------
\* main, log set-up (src/src/main.rs, lines 129-155)
\* ------------------------------------------------------------------------
SizerVars == <<size, total_size, increment, previous_swap_usage, sys_info, init_detectors>>
CounterVars == <<total_checks, checks_since_last_bitflip, everything_is_fine>>

\* Lines 129-136: open the log for appending; an error is returned from main.
OpenLog ==
    /\ pc = "open"
    /\ \E ok \in BOOLEAN :
        IF ok
        THEN /\ file' = [file EXCEPT !.opened = TRUE]
             /\ pc' = "start_write"
             /\ hist' = hist
        ELSE /\ pc' = "exit_err"
             /\ hist' = [hist EXCEPT !.io_error = "open"]
             /\ file' = file
    /\ UNCHANGED <<argv, conf, overflow_checks, SizerVars, detector, unix_timestamp,
                   end_check_time, log_entry_str, CounterVars, clock, stdout_ok, workers>>

\* Lines 138-144: take the session timestamp (.expect panics when the
\* clock reads before UNIX_EPOCH), write the start entry (.expect panics
\* on a write error).
StartWrite ==
    /\ pc = "start_write"
    /\ IF clock < 0
       THEN \* duration_since(UNIX_EPOCH) is Err: "Time went backwards"
            /\ pc' = "panicked"
            /\ UNCHANGED <<unix_timestamp, file, hist>>
       ELSE /\ unix_timestamp' = clock
            /\ \E ok \in BOOLEAN :
                 IF ok
                 THEN LET entry == StartEntryStr(clock, conf.delay_between_checks,
                                                 conf.latitude, conf.longitude)
                      IN \E n \in WriteAccepts(Len(entry)) :
                         /\ file' = FileWrite(file, entry, n)
                         /\ pc' = "start_flush"
                         /\ hist' = [hist EXCEPT !.appends = @ + 1, !.last_io = "write",
                                                 !.short_write = @ \/ n < Len(entry),
                                                 !.before_write = Len(file.content)]
                 ELSE /\ pc' = "panicked"
                      /\ hist' = [hist EXCEPT !.io_error = "write"]
                      /\ file' = file
    /\ UNCHANGED <<argv, conf, overflow_checks, SizerVars, detector, end_check_time,
                   log_entry_str, CounterVars, clock, stdout_ok, workers>>

\* Line 145: file.flush()?
StartFlush ==
    /\ pc = "start_flush"
    /\ \E ok \in BOOLEAN :
        IF ok
        THEN /\ file' = FileFlush(file)
             /\ pc' = "start_sync"
             /\ hist' = [hist EXCEPT !.last_io = "flush"]
        ELSE /\ pc' = "exit_err"
             /\ hist' = [hist EXCEPT !.io_error = "flush"]
             /\ file' = file
    /\ UNCHANGED <<argv, conf, overflow_checks, SizerVars, detector, unix_timestamp,
                   end_check_time, log_entry_str, CounterVars, clock, stdout_ok, workers>>

\* Line 146: file.sync_data()?
StartSync ==
    /\ pc = "start_sync"
    /\ \E ok \in BOOLEAN :
        IF ok
        THEN /\ file' = FileSyncData(file)
             /\ pc' = "loop_init"
             /\ hist' = [hist EXCEPT !.last_io = "sync"]
        ELSE /\ pc' = "exit_err"
             /\ hist' = [hist EXCEPT !.io_error = "sync"]
             /\ file' = file
    /\ UNCHANGED <<argv, conf, overflow_checks, SizerVars, detector, unix_timestamp,
                   end_check_time, log_entry_str, CounterVars, clock, stdout_ok, workers>>

\* Lines 148-155: the counters start at 1.
LoopInit ==
    /\ pc = "loop_init"
    /\ IF conf.verbose /\ ~stdout_ok
       THEN /\ pc' = "panicked"
            /\ UNCHANGED <<total_checks, checks_since_last_bitflip>>
       ELSE /\ total_checks' = 1
            /\ checks_since_last_bitflip' = 1
            /\ pc' = "reset"
    /\ UNCHANGED <<argv, conf, overflow_checks, SizerVars, detector, file, unix_timestamp,
                   end_check_time, log_entry_str, everything_is_fine, clock, stdout_ok, workers, hist>>

\* ------------------------------------------------------------------------
\* main, detection loop (src/src/main.rs, lines 156-222)
\* ------------------------------------------------------------------------

\* Lines 159-172: (verbose: print!, stdout().flush()?), detector.reset(),
\* everything_is_fine = true.
Reset ==
    /\ pc = "reset"
    /\ IF conf.verbose /\ ~stdout_ok
       THEN \* flush()? at line 162 returns Err
            /\ pc' = "exit_err"
            /\ UNCHANGED <<detector, everything_is_fine, hist, stdout_ok>>
       ELSE /\ detector' = DetectorReset(detector)
            /\ everything_is_fine' = TRUE
            /\ hist' = [hist EXCEPT !.resets = @ + 1, !.cycle_checks = 0,
                                    !.armed_at = clock]
            /\ \/ /\ pc' = "sleep"
                  /\ UNCHANGED stdout_ok
               \/ \* verbose, stdout is lost while reset() runs: println! at
                  \* line 169 panics
                  /\ conf.verbose
                  /\ pc' = "panicked"
                  /\ stdout_ok' = FALSE
               \/ \* verbose, stdout is lost after line 169: flush()? at line
                  \* 171 returns Err
                  /\ conf.verbose
                  /\ pc' = "exit_err"
                  /\ stdout_ok' = FALSE
    /\ UNCHANGED <<argv, conf, overflow_checks, SizerVars, file, unix_timestamp, end_check_time,
                   log_entry_str, total_checks, checks_since_last_bitflip, clock, workers>>

\* Line 176: sleep(sleep_duration) returns once the delay has passed, or
\* later.
Sleep ==
    /\ pc = "sleep"
    /\ total_checks <= MaxChecks
    /\ \E late \in 0 .. (MaxLate - hist.late) :
        /\ clock' = clock + conf.delay_between_checks + late
        /\ hist' = [hist EXCEPT !.late = @ + late]
    /\ pc' = "check"
    /\ UNCHANGED <<argv, conf, overflow_checks, SizerVars, detector, file, unix_timestamp,
                   end_check_time, log_entry_str, CounterVars, stdout_ok, workers>>

\* Lines 178-185: everything_is_fine = detector.is_intact(), (verbose:
\* print!, stdout().flush()?), both counters += 1, loop test.
Check ==
    /\ pc = "check"
    /\ \E r \in FindIndexResults(detector) :
        /\ everything_is_fine' = IsIntactOf(r)
        /\ hist' = [hist EXCEPT !.checks = @ + 1, !.cycle_checks = @ + 1,
                                !.fails = IF IsIntactOf(r) THEN @ ELSE @ + 1]
        /\ IF conf.verbose /\ ~stdout_ok
           THEN /\ pc' = "exit_err"
                /\ UNCHANGED <<total_checks, checks_since_last_bitflip>>
           ELSE /\ total_checks' = total_checks + 1
                /\ checks_since_last_bitflip' = checks_since_last_bitflip + 1
                /\ pc' = IF IsIntactOf(r) THEN "sleep" ELSE "detect"
    /\ UNCHANGED <<argv, conf, overflow_checks, SizerVars, detector, file, unix_timestamp,
                   end_check_time, log_entry_str, clock, stdout_ok, workers>>

\* The fourth field of the log entry: 0 in the Some(index) arm, 1 in the None arm.
AmbiguousFlag(r) == IF r # None THEN 0 ELSE 1

\* Lines 187-215: take the event time, report, re-scan for the index and
\* build the log entry.
Detect ==
    /\ pc = "detect"
    /\ IF clock < 0
       THEN \* lines 188-190: duration_since(UNIX_EPOCH) is Err, .expect
            \* panics with "Time went backwards" before anything is printed
            /\ pc' = "panicked"
            /\ UNCHANGED <<end_check_time, log_entry_str, hist, stdout_ok>>
       ELSE IF ~stdout_ok
       THEN \* println! of line 192 panics
            /\ end_check_time' = clock
            /\ pc' = "panicked"
            /\ UNCHANGED <<log_entry_str, hist, stdout_ok>>
       ELSE \E r \in FindIndexResults(detector), lost \in BOOLEAN :
            \* lost: stdout stops taking writes after line 192 has printed,
            \* so that the println! of line 201 or 210 panics after the re-scan
            LET entry == LogEntryStr(unix_timestamp, conf.delay_between_checks,
                                     checks_since_last_bitflip, AmbiguousFlag(r), clock,
                                     conf.latitude, conf.longitude)
            IN
            /\ end_check_time' = clock
            /\ stdout_ok' = ~lost
            /\ IF r # None
               THEN \* Some(index): get(index).unwrap() is evaluated, then the
                    \* index and the byte are printed
                    /\ hist' = [hist EXCEPT !.finds = @ + 1, !.last_find = r,
                                            !.gets = @ + 1,
                                            !.reported = IF lost THEN @ ELSE r]
                    /\ IF DetectorGet(detector, r) = None \/ lost
                       THEN /\ pc' = "panicked"
                            /\ UNCHANGED log_entry_str
                       ELSE /\ log_entry_str' = entry
                            /\ pc' = "log_write"
               ELSE \* None: nothing is read, no index is printed
                    /\ hist' = [hist EXCEPT !.finds = @ + 1, !.last_find = r,
                                            !.reported = IF lost THEN @ ELSE None]
                    /\ IF lost
                       THEN /\ pc' = "panicked"
                            /\ UNCHANGED log_entry_str
                       ELSE /\ log_entry_str' = entry
                            /\ pc' = "log_write"
    /\ UNCHANGED <<argv, conf, overflow_checks, SizerVars, detector, file, unix_timestamp,
                   CounterVars, clock, workers>>

\* Line 217: file.write(log_entry_str.as_bytes()).expect(..)
LogWrite ==
    /\ pc = "log_write"
    /\ \E ok \in BOOLEAN :
        IF ok
        THEN \E n \in WriteAccepts(Len(log_entry_str)) :
             /\ file' = FileWrite(file, log_entry_str, n)
             /\ pc' = "log_flush"
             /\ hist' = [hist EXCEPT !.appends = @ + 1, !.last_io = "write",
                                     !.short_write = @ \/ n < Len(log_entry_str),
                                     !.before_write = Len(file.content)]
        ELSE /\ pc' = "panicked"
             /\ hist' = [hist EXCEPT !.io_error = "write"]
             /\ file' = file
    /\ UNCHANGED <<argv, conf, overflow_checks, SizerVars, detector, unix_timestamp,
                   end_check_time, log_entry_str, CounterVars, clock, stdout_ok, workers>>

\* Variant of line 218 that goes on after a failed flush.
LogFlush_IgnoresError ==
    /\ pc = "log_flush"
    /\ \E ok \in BOOLEAN :
        /\ file' = FileFlush(file)
        /\ pc' = "log_sync"
        /\ hist' = IF ok THEN [hist EXCEPT !.last_io = "flush"]
                         ELSE [hist EXCEPT !.io_error = "flush"]
    /\ UNCHANGED <<argv, conf, overflow_checks, SizerVars, detector, unix_timestamp,
                   end_check_time, log_entry_str, CounterVars, clock, stdout_ok, workers>>

\* Line 218: file.flush()?
LogFlush ==
    /\ pc = "log_flush"
    /\ \E ok \in BOOLEAN :
        IF ok
        THEN /\ file' = FileFlush(file)
             /\ pc' = "log_sync"
             /\ hist' = [hist EXCEPT !.last_io = "flush"]
        ELSE /\ pc' = "exit_err"
             /\ hist' = [hist EXCEPT !.io_error = "flush"]
             /\ file' = file
    /\ UNCHANGED <<argv, conf, overflow_checks, SizerVars, detector, unix_timestamp,
                   end_check_time, log_entry_str, CounterVars, clock, stdout_ok, workers>>

\* Lines 219-221: file.sync_data()?, checks_since_last_bitflip = 0.
LogSync ==
    /\ pc = "log_sync"
    /\ \E ok \in BOOLEAN :
        IF ok
        THEN /\ file' = FileSyncData(file)
             /\ checks_since_last_bitflip' = 0
             /\ pc' = "reset"
             /\ hist' = [hist EXCEPT !.last_io = "sync"]
        ELSE /\ pc' = "exit_err"
             /\ hist' = [hist EXCEPT !.io_error = "sync"]
             /\ UNCHANGED <<file, checks_since_last_bitflip>>
    /\ UNCHANGED <<argv, conf, overflow_checks, SizerVars, detector, unix_timestamp,
                   end_check_time, log_entry_str, total_checks, everything_is_fine,
                   clock, stdout_ok, workers>>

\* ------------------------------------------------------------------------
\* Environment
\* ------------------------------------------------------------------------
LoopPcs == {"reset", "sleep", "check", "detect", "log_write", "log_flush", "log_sync"}

\* Indices at which faults are injected: both ends of the buffer.
FaultIndices(cap) == {i \in {0, cap - 1} : i >= 0 /\ i < cap}
FaultValues == {0, 1}

\* A memory cell changes under the program (a flip, or a flip back).  Only
\* changes between a reset and the reads that follow it can be observed: a
\* change at any other point is overwritten by the next reset before any read.
Fault ==
    /\ pc \in {"sleep", "check", "detect"}
    /\ \E i \in FaultIndices(detector.capacity), v \in FaultValues :
        /\ Element(detector, i) # v
        /\ detector' = StoreByte(detector, i, v)
    /\ UNCHANGED <<argv, conf, overflow_checks, pc, SizerVars, file, unix_timestamp,
                   end_check_time, log_entry_str, CounterVars, clock, stdout_ok, workers, hist>>

\* Positions of main.
MainPcs ==
    {"start", "settings", "sizer_loop", "sizer_done", "announce", "alloc", "open",
     "start_write", "start_flush", "start_sync", "loop_init"} \cup LoopPcs

\* Stdout stops accepting writes, at any moment of the run.
StdoutBreaks ==
    /\ pc \in MainPcs
    /\ stdout_ok
    /\ stdout_ok' = FALSE
    /\ UNCHANGED <<argv, conf, overflow_checks, pc, SizerVars, detector, file, unix_timestamp,
                   end_check_time, log_entry_str, CounterVars, clock, workers, hist>>

\* The wall clock changes while main is at any of its statements: it
\* moves on, or it is set (forward or back, also to before the epoch).
TimePasses ==
    /\ pc \in MainPcs
    /\ hist.late < MaxLate
    /\ clock' \in ({clock + 1} \cup ClockSets) \ {clock}
    /\ hist' = [hist EXCEPT !.late = @ + 1]
    /\ UNCHANGED <<argv, conf, overflow_checks, pc, SizerVars, detector, file, unix_timestamp,
                   end_check_time, log_entry_str, CounterVars, stdout_ok, workers>>

\* External termination of the process.
Kill ==
    /\ pc \notin Terminal \cup {"harness"}
    /\ pc' = "killed"
    /\ UNCHANGED <<argv, conf, overflow_checks, SizerVars, detector, file, unix_timestamp,
                   end_check_time, log_entry_str, CounterVars, clock, stdout_ok, workers, hist>>

\* The whole program.  Args::parse never gives memory_to_occupy = 0, so
\* the test of line 35 fails in every run and the passes of the sizing loop
\* (SizerIteration, SizerDone) are no steps of it: see SizerNotEntered.
Next ==
    \/ Start \/ Settings \/ Announce \/ Alloc
    \/ OpenLog \/ StartWrite \/ StartFlush \/ StartSync \/ LoopInit
    \/ Reset \/ Sleep \/ Check \/ Detect \/ LogWrite \/ LogFlush \/ LogSync
    \/ Fault \/ StdoutBreaks \/ TimePasses \/ Kill

Spec == Init /\ [][Next]_vars

\* The statements of the detection loop: main is a single thread, each of
\* reset, sleep, scan and file call returns, and the next statement then runs.
LoopStep == Reset \/ Sleep \/ Check \/ Detect \/ LogWrite \/ LogFlush \/ LogSync

\* The whole program, its detection loop never stalling.
LiveSpec == Init /\ [][Next]_vars /\ WF_vars(LoopStep)

\* ------------------------------------------------------------------------
\* The Detector on its own: any default value, any capacity up to MaxCap,
\* any sequence of its operations and of external changes.
\* ------------------------------------------------------------------------
Intact(det) == \A r \in FindIndexResults(det) : IsIntactOf(r)

Did(op) == [hist EXCEPT !.prev_op = hist.op, !.op = op, !.was_intact = Intact(detector)]

HarnessRest ==
    <<argv, conf, overflow_checks, pc, SizerVars, file, unix_timestamp, end_check_time,
      log_entry_str, CounterVars, clock, stdout_ok, workers>>

DetInit ==
    /\ argv = NoArgs
    /\ conf = NoArgs
    /\ overflow_checks = "unknown"
    /\ pc = "harness"
    /\ size = 0
    /\ total_size = 0
    /\ increment = 0
    /\ previous_swap_usage = 0
    /\ sys_info = NoSample
    /\ init_detectors = <<>>
    /\ \E d \in ByteSamples, c \in 0 .. MaxCap : detector = DetectorNew(d, c)
    /\ file = FileClosed
    /\ unix_timestamp = 0
    /\ end_check_time = 0
    /\ log_entry_str = <<>>
    /\ total_checks = 0
    /\ checks_since_last_bitflip = 0
    /\ everything_is_fine = TRUE
    /\ clock = 0
    /\ stdout_ok = TRUE
    /\ workers = NoWorkers
    /\ hist = [Hist0 EXCEPT !.op = "new"]

\* detector.write(v)
HWrite ==
    /\ pc = "harness"
    /\ \E v \in ByteSamples : detector' = DetectorWrite(detector, v)
    /\ hist' = Did("write")
    /\ UNCHANGED HarnessRest

\* detector.reset()
HReset ==
    /\ pc = "harness"
    /\ detector' = DetectorReset(detector)
    /\ hist' = Did("reset")
    /\ UNCHANGED HarnessRest

\* One byte is changed from outside.
HFault ==
    /\ pc = "harness"
    /\ \E i \in 0 .. (detector.capacity - 1), v \in ByteSamples :
        /\ Element(detector, i) # v
        /\ detector' = StoreByte(detector, i, v)
    /\ hist' = Did("fault")
    /\ UNCHANGED HarnessRest

\* detector.find_index_of_changed_element() and detector.is_intact() on the
\* same content, each with its own schedule of the scan.
HScan ==
    /\ pc = "harness"
    /\ \E r1 \in FindIndexResults(detector), r2 \in FindIndexResults(detector) :
        hist' = [Did("scan") EXCEPT !.last_find = r1, !.last_intact = IsIntactOf(r2)]
    /\ UNCHANGED detector
    /\ UNCHANGED HarnessRest

DetNext == HWrite \/ HReset \/ HFault \/ HScan

DetSpec == DetInit /\ [][DetNext]_vars

\* ------------------------------------------------------------------------
\* Detector::write seen from inside (src/src/detector.rs, lines 28-32):
\* detector_mass.par_iter_mut().for_each(|n| write_volatile(n, value)).
\* The elements are split among the workers of the pool, each element is
\* handed to exactly one worker as a &mut u8, the workers run in any order,
\* and for_each returns to the caller when every element has been visited.
\* write takes &mut self: no other method of the detector runs meanwhile.
\* ------------------------------------------------------------------------

\* Default values of the detectors examined.
ParDefaults == {DetectorDefault, 255}

\* The ways of splitting the elements among the workers.
Partitions(cap) == [0 .. (cap - 1) -> 1 .. NumWorkers]

ParInit ==
    /\ argv = NoArgs
    /\ conf = NoArgs
    /\ overflow_checks = "unknown"
    /\ pc = "par_idle"
    /\ size = 0
    /\ total_size = 0
    /\ increment = 0
    /\ previous_swap_usage = 0
    /\ sys_info = NoSample
    /\ init_detectors = <<>>
    /\ \E d \in ParDefaults, c \in 0 .. MaxCap : detector = DetectorNew(d, c)
    /\ file = FileClosed
    /\ unix_timestamp = 0
    /\ end_check_time = 0
    /\ log_entry_str = <<>>
    /\ total_checks = 0
    /\ checks_since_last_bitflip = 0
    /\ everything_is_fine = TRUE
    /\ clock = 0
    /\ stdout_ok = TRUE
    /\ workers = NoWorkers
    /\ hist = [Hist0 EXCEPT !.op = "new"]

ParRest ==
    <<argv, conf, overflow_checks, SizerVars, file, unix_timestamp, end_check_time,
      log_entry_str, CounterVars, clock, stdout_ok>>

\* The caller enters write(value): the elements are split among the workers.
ForEachStarts(value, op) ==
    /\ pc = "par_idle"
    /\ \E owner \in Partitions(detector.capacity) :
          workers' = [value |-> value, owner |-> owner,
                      pending |-> 0 .. (detector.capacity - 1)]
    /\ pc' = "par_busy"
    /\ hist' = [Did(op) EXCEPT !.writers = {}]
    /\ UNCHANGED detector
    /\ UNCHANGED ParRest

\* detector.write(42), as main calls it.
PWrite == ForEachStarts(FillValue, "write")

\* detector.reset(): self.write(self.default).
PReset == ForEachStarts(detector.default, "reset")

\* A worker performs write_volatile on one of the elements it was given.
WorkerWrites ==
    /\ \E i \in workers.pending :
          /\ detector' = StoreByte(detector, i, workers.value)
          /\ workers' = [workers EXCEPT !.pending = @ \ {i}]
          /\ hist' = [hist EXCEPT !.writers = @ \cup {workers.owner[i]}]
    /\ UNCHANGED pc
    /\ UNCHANGED ParRest

\* Variant of for_each that returns while one element is still to be written.
PJoin_ReturnsEarly ==
    /\ pc = "par_busy"
    /\ Cardinality(workers.pending) <= 1
    /\ pc' = "par_idle"
    /\ UNCHANGED <<workers, detector, hist>>
    /\ UNCHANGED ParRest

\* for_each returns: every element has been visited.
PJoin ==
    /\ pc = "par_busy"
    /\ workers.pending = {}
    /\ pc' = "par_idle"
    /\ workers' = NoWorkers
    /\ UNCHANGED <<detector, hist>>
    /\ UNCHANGED ParRest

\* One byte is changed from outside, between two calls.
PFault ==
    /\ pc = "par_idle"
    /\ \E i \in FaultIndices(detector.capacity), v \in FaultValues :
        /\ Element(detector, i) # v
        /\ detector' = StoreByte(detector, i, v)
    /\ hist' = Did("fault")
    /\ UNCHANGED <<pc, workers>>
    /\ UNCHANGED ParRest

\* detector.is_intact() / find_index_of_changed_element(), called by the
\* control thread.
PScan ==
    /\ pc = "par_idle"
    /\ \E r1 \in FindIndexResults(detector), r2 \in FindIndexResults(detector) :
        hist' = [Did("scan") EXCEPT !.last_find = r1, !.last_intact = IsIntactOf(r2)]
    /\ UNCHANGED <<pc, workers, detector>>
    /\ UNCHANGED ParRest

ParNext == PWrite \/ PReset \/ WorkerWrites \/ PJoin \/ PFault \/ PScan

ParSpec == ParInit /\ [][ParNext]_vars

\* ========================================================================
\* Properties
\* ========================================================================

\* Bytes of the monitored detector that differ from its default value,
\* read position by position.
DiffersFromDefault ==
    {i \in 0 .. (detector.capacity - 1) : Element(detector, i) # detector.default}

\* C1: immediately after new(d, C) and immediately after reset(), whatever
\* the buffer held before, is_intact() returns true under every schedule of
\* the scan (so also after each of two consecutive resets).
C1_IntactAfterNewAndReset ==
    (pc = "harness" /\ hist.op \in {"new", "reset"}) =>
        /\ Intact(detector)
        /\ DiffersFromDefault = {}

\* C1 witness: a reset has just run on a non-empty buffer that was not intact.
C1_ResetOfDamagedBuffer ==
    /\ pc = "harness"
    /\ hist.op = "reset"
    /\ hist.prev_op \in {"write", "fault"}
    /\ ~hist.was_intact
    /\ detector.capacity > 0
    /\ detector.default # 0

\* C2: find_index_of_changed_element() returns None iff every byte equals
\* the default value, otherwise an index below capacity whose byte differs
\* (the only such index when there is exactly one); is_intact() on the same
\* content is true exactly when the scan returns None.
C2_ScanFindsAChangedByte ==
    (pc = "harness" /\ hist.op = "scan") =>
        /\ (hist.last_find = None) <=> (DiffersFromDefault = {})
        /\ hist.last_find # None =>
              /\ hist.last_find >= 0
              /\ hist.last_find < detector.capacity
              /\ Element(detector, hist.last_find) # detector.default
        /\ \A i \in DiffersFromDefault :
              DiffersFromDefault = {i} => hist.last_find = i
        /\ hist.last_intact <=> (hist.last_find = None)

\* C2 witness: a scan of a buffer in which several bytes differ returned
\* one of them, and not the lowest.
C2_ScanOfSeveralChanges ==
    /\ pc = "harness"
    /\ hist.op = "scan"
    /\ Cardinality(DiffersFromDefault) >= 2
    /\ hist.last_find \in DiffersFromDefault
    /\ \E j \in DiffersFromDefault : j < hist.last_find
    /\ ~hist.last_intact

\* ------------------------------------------------------------------------
\* Reading the log back
\* ------------------------------------------------------------------------

\* The pieces of s between occurrences of the character sep: the k-th
\* piece lies between the (k-1)-th and the k-th occurrence.
SplitOn(s, sep) ==
    LET P == {i \in 1 .. Len(s) : s[i] = sep}
        n == Cardinality(P)
        Pos(k) == IF k = 0 THEN 0
                  ELSE IF k = n + 1 THEN Len(s) + 1
                  ELSE CHOOSE p \in P : Cardinality({q \in P : q < p}) = k - 1
    IN [k \in 1 .. (n + 1) |-> SubSeq(s, Pos(k - 1) + 1, Pos(k) - 1)]


\* What the process has written to the log, cut at the newlines: the
\* complete lines (each cut into its fields), and what follows the last
\* newline.
LogPieces == SplitOn(file.content, "\n")
LinesOf(pieces) == [k \in 1 .. (Len(pieces) - 1) |-> SplitOn(pieces[k], ",")]
LogRecords == LinesOf(LogPieces)
LogRemainder == LogPieces[Len(LogPieces)]

\* The entry built by the detection step, cut the same way, and the fields
\* of its line.
EntryPieces == SplitOn(log_entry_str, "\n")
EntryFields == SplitOn(EntryPieces[1], ",")

\* The positions at which the entry of the current detection exists.
EntryBuilt == pc \in {"log_write", "log_flush", "log_sync"}

\* Detection records (all but the first) whose fourth field is flag.
RecordsWith(recs, flag) ==
    {k \in 2 .. Len(recs) : Len(recs[k]) >= 4 /\ recs[k][4] = flag}

EntryPending == pc = "log_write"

\* C3: the entry built in LOGGING has 7 fields and its ambiguous field is 0
\* iff the re-scan returned an index and 1 iff it returned None; in the None
\* case no index is reported and get() is not called (get() is called once
\* per record with flag 0); exactly one record, this entry, is appended per
\* re-scan.
C3_AmbiguousIffNoIndex ==
    pc \in LoopPcs =>
    LET recs == LogRecords
        ep == EntryPieces
        ef == SplitOn(ep[1], ",")
    IN
    /\ pc \in {"log_write", "log_flush", "log_sync"} =>
          /\ Len(ep) = 2 /\ ep[2] = <<>>
          /\ Len(ef) = 7
          /\ (ef[4] = <<"0">>) <=> (hist.last_find # None)
          /\ (ef[4] = <<"1">>) <=> (hist.last_find = None)
          /\ hist.reported = hist.last_find
    /\ pc \in {"log_flush", "log_sync"} =>
          /\ Len(recs) >= 2
          /\ recs[Len(recs)] = ef
    /\ Len(recs) = 1 + hist.finds - (IF EntryPending THEN 1 ELSE 0)
    /\ hist.gets = Cardinality(RecordsWith(recs, <<"0">>))
                     + (IF EntryPending /\ hist.last_find # None THEN 1 ELSE 0)
    /\ hist.finds - hist.gets = Cardinality(RecordsWith(recs, <<"1">>))
                     + (IF EntryPending /\ hist.last_find = None THEN 1 ELSE 0)

\* The part of C3 that is about the entry the detection step builds: one
\* line of 7 fields whose ambiguous field is 0 iff the re-scan returned an
\* index; no index is reported and get() is not called when it did not.
C3_EntryFlagMatchesRescan ==
    EntryBuilt =>
        /\ Len(EntryPieces) = 2 /\ EntryPieces[2] = <<>>
        /\ Len(EntryFields) = 7
        /\ (EntryFields[4] = <<"0">>) <=> (hist.last_find # None)
        /\ (EntryFields[4] = <<"1">>) <=> (hist.last_find = None)
        /\ hist.reported = hist.last_find
        /\ hist.finds - hist.gets >= (IF hist.last_find = None THEN 1 ELSE 0)

\* Shape of a session-start record and of a detection record.
IsStartRecord(f) ==
    /\ Len(f) = 6
    /\ ParseDecimal(f[1]) = unix_timestamp
    /\ ParseDecimal(f[2]) = conf.delay_between_checks
    /\ f[3] = <<>>
    /\ f[4] = <<>>
    /\ f[5] = conf.latitude
    /\ f[6] = conf.longitude

IsDetectionRecord(f) ==
    /\ Len(f) = 7
    /\ ParseDecimal(f[1]) = unix_timestamp
    /\ ParseDecimal(f[2]) = conf.delay_between_checks
    /\ ParseDecimal(f[3]) >= 0
    /\ f[4] \in {<<"0">>, <<"1">>}
    /\ ParseDecimal(f[5]) >= 0
    /\ f[6] = conf.latitude
    /\ f[7] = conf.longitude

\* C4: whatever the process has written to the log is whole lines: nothing
\* before the start entry is written, then exactly one session-start line
\* followed by detection lines only, all carrying the configured delay,
\* latitude and longitude and the session timestamp; the start line is in
\* the log before the first integrity check.
C4_LogShape ==
    pc # "harness" =>
    LET recs == LogRecords IN
    /\ LogRemainder = <<>>
    /\ Len(recs) = hist.appends
    /\ Len(recs) >= 1 => IsStartRecord(recs[1])
    /\ \A k \in 2 .. Len(recs) : IsDetectionRecord(recs[k])
    /\ hist.checks > 0 => Len(recs) >= 1
    /\ pc \in LoopPcs => Len(recs) >= 1

\* C5: each append is followed by flush, then sync_data, before the loop
\* resets, sleeps or checks again: at those points everything written is
\* durable and the last file operation was the sync.  At any point, and so
\* when the process is killed, everything that earlier appends put in the
\* log is durable: only bytes of the append in progress lie beyond the
\* synced prefix.
C5_SyncedBeforeProceeding ==
    pc # "harness" =>
    /\ pc \in {"loop_init", "reset", "sleep", "check", "detect", "log_write"} =>
          /\ file.synced = Len(file.content)
          /\ hist.last_io = "sync"
    /\ pc \in {"start_flush", "log_flush"} => hist.last_io = "write"
    /\ pc \in {"start_sync", "log_sync"} => hist.last_io = "flush"
    /\ file.synced <= Len(file.content)
    /\ file.synced >= hist.before_write
    /\ file.synced < Len(file.content) => hist.last_io \in {"write", "flush"}

\* C5 witness: the process is killed after appending its second detection
\* record and before syncing it; the start line and the first record are
\* durable, the bytes of the second record are not.
C5_KilledBeforeSync ==
    /\ pc = "killed"
    /\ hist.appends = 3
    /\ ~hist.short_write
    /\ file.synced = hist.before_write
    /\ file.synced > 0
    /\ file.synced < Len(file.content)

\* What must stay as it is once the log has failed.
Frozen == <<pc, file, detector, hist, CounterVars, log_entry_str>>

\* C6: an error opening, writing, flushing or syncing the log ends the
\* process at once (error return or panic) and nothing is retried: from
\* then on no reset, check, re-scan or append happens; an error at open
\* leaves the log empty and the detection loop unentered.
C6_LogErrorsAreFatal ==
    [][ /\ hist'.io_error # "none" =>
             /\ pc' \in {"exit_err", "panicked"}
             /\ file'.content = file.content
             /\ hist'.resets = hist.resets
             /\ hist'.checks = hist.checks
             /\ hist'.finds = hist.finds
             /\ hist'.appends = hist.appends
        /\ hist'.io_error = "open" =>
             /\ file'.content = <<>>
             /\ ~file'.opened
             /\ hist'.resets = 0 /\ hist'.checks = 0 /\ hist'.appends = 0
        /\ hist.io_error # "none" => Frozen' = Frozen
      ]_vars

\* C6 witness: the sync of a detection record failed after the loop had
\* been running; the process has exited with the error.
C6_SyncFailedInLoop ==
    /\ hist.io_error = "sync"
    /\ pc = "exit_err"
    /\ hist.finds >= 1
    /\ hist.appends >= 2

\* Positions of main after the detector has been allocated.
AfterAlloc ==
    {"open", "start_write", "start_flush", "start_sync", "loop_init"} \cup LoopPcs

\* What the run with verbose = false does with the same arguments: it
\* skips lines 33-112 and builds the detector with the capacity asked for,
\* and it skips the output of lines 124-127, 148-150, 160-163, 168-172 and
\* 179-182, so that from these positions it moves on as follows.
QuietCapacity == conf.memory_to_occupy

QuietSuccessors(p) ==
    CASE p = "alloc" -> {"open"}
      [] p = "loop_init" -> {"reset"}
      [] p = "reset" -> {"sleep"}
      [] p = "check" -> {"sleep", "detect"}

\* C7: the verbose flag has no effect on behaviour: the detector a run
\* monitors has the capacity that the run with verbose = false on the same
\* arguments, metrics and faults gives it, and where the run with
\* verbose = false goes on, the run goes on in the same way unless it is
\* killed.
C7_VerboseHasNoEffect ==
    [][ /\ pc' \in AfterAlloc => detector'.capacity = QuietCapacity'
        /\ (pc \in {"alloc", "loop_init", "reset", "check"} /\ pc' # pc) =>
               pc' \in QuietSuccessors(pc) \cup {"killed"}
      ]_vars

\* A -m argument that stands for zero bytes: 0 written with or without a
\* unit.
DenotesZero(t) ==
    \/ ParseUsize(t) = 0
    \/ /\ Len(t) >= 3
       /\ t[Len(t)] \in {"B", "b"}
       /\ SizeFactor(t[Len(t) - 1], t[Len(t)]) # 0
       /\ ParseUsize(SubSeq(t, 1, Len(t) - 2)) = 0

\* C8: memory_to_occupy = 0 is a configuration the program takes, and with
\* it the sizer has run exactly once before the detection loop starts and
\* the monitored buffer has the sizer's final total as capacity; with
\* memory_to_occupy # 0 the sizer has not run and the capacity is
\* memory_to_occupy.
C8_SizerRunsIffAutoSizing ==
    /\ hist.sizer_runs <= 1
    /\ hist.usage = "size" => ~DenotesZero(argv.memory_to_occupy)
    /\ pc \in AfterAlloc =>
          IF conf.memory_to_occupy = 0
          THEN /\ hist.sizer_runs = 1
               /\ detector.capacity = total_size
          ELSE /\ hist.sizer_runs = 0
               /\ detector.capacity = conf.memory_to_occupy

\* The half of C8 about a non-zero memory_to_occupy, on its own.
C8_FixedSizeSkipsSizer ==
    pc \in AfterAlloc =>
        /\ conf.memory_to_occupy > 0
        /\ hist.sizer_runs = 0
        /\ detector.capacity = conf.memory_to_occupy

\* The sizing block of lines 35-99 is entered in no run: main is never at
\* its loop, no probe is ever held and the increment is never set.
SizerNotEntered ==
    /\ pc \notin {"sizer_loop", "sizer_done"}
    /\ hist.sizer_runs = 0
    /\ init_detectors = <<>>
    /\ increment = 0
    /\ pc \notin {"start", "usage_err", "harness"} /\ conf # NoArgs => size > 0

LoopSuccessors(p) ==
    CASE p = "reset" -> {"sleep"}
      [] p = "sleep" -> {"check"}
      [] p = "check" -> {"sleep", "detect"}
      [] p = "detect" -> {"log_write"}
      [] p = "log_write" -> {"log_flush"}
      [] p = "log_flush" -> {"log_sync"}
      [] p = "log_sync" -> {"reset"}

\* Number of complete lines in the bytes handed to the log file.
LinesWritten(f) == Cardinality({i \in 1 .. Len(f.content) : f.content[i] = "\n"})

\* Detection records appended so far (every line but the start entry).
DetectionRecords(f) == IF LinesWritten(f) = 0 THEN 0 ELSE LinesWritten(f) - 1

\* C13: the loop moves only reset -> sleep -> check -> (sleep when intact |
\* detect -> write -> flush -> sync -> reset when not); the program changes
\* the buffer only by the reset; a detection record is appended only by the
\* write that follows a failing check, one per failing check.
C13_LoopOrder ==
    [][(pc \in LoopPcs /\ pc' # pc) =>
          /\ pc' \in Terminal \cup LoopSuccessors(pc)
          /\ (pc = "check" /\ pc' \notin Terminal) =>
                (pc' = "sleep" <=> everything_is_fine')
          /\ detector' # detector =>
                (pc = "reset" /\ ChangedIndices(detector') = {})
          /\ DetectionRecords(file') # DetectionRecords(file) =>
                (pc = "log_write" /\ DetectionRecords(file') = DetectionRecords(file) + 1)
          /\ DetectionRecords(file') <= hist'.fails
          /\ hist'.fails <= DetectionRecords(file') + 1
          /\ pc' \in {"reset", "sleep", "log_flush", "log_sync"} =>
                DetectionRecords(file') = hist'.fails]_vars

\* The part of C13 that is about the order of the calls: the positions
\* follow one another as above, the program changes the buffer only by the
\* reset, and file.write is called once per failing check, after it.
C13_CallOrder ==
    [][(pc \in LoopPcs /\ pc' # pc) =>
          /\ pc' \in Terminal \cup LoopSuccessors(pc)
          /\ (pc = "check" /\ pc' \notin Terminal) =>
                (pc' = "sleep" <=> everything_is_fine')
          /\ detector' # detector =>
                (pc = "reset" /\ ChangedIndices(detector') = {})
          /\ hist'.appends # hist.appends =>
                (pc = "log_write" /\ hist'.appends = hist.appends + 1)
          /\ pc' \in {"reset", "sleep", "log_flush", "log_sync"} =>
                hist'.appends = hist'.fails + 1]_vars

\* C14: the third field of every detection record, the first of the run
\* included, is the number of is_intact() calls made since the reset that
\* began the cycle.
C14_ChecksSinceLastFlip ==
    EntryBuilt => ParseDecimal(EntryFields[3]) = hist.cycle_checks

\* The same for the records of the second and later cycles only.
C14_LaterRecordsCountChecks ==
    (EntryBuilt /\ hist.resets >= 2) =>
        ParseDecimal(EntryFields[3]) = hist.cycle_checks

\* C15: once in the detection loop the process ends only by an I/O error
\* on the log or on stdout or by being killed; short of that, and of a
\* file.write that takes a part of a record only, every failing check leads
\* to its record being written and synced and to the loop being back at the
\* reset, and every reset leads to a further is_intact() call (for as many
\* checks as the model runs).
C15_LoopHasNoTerminalState ==
    /\ [][(pc \in LoopPcs /\ pc' \in Terminal) =>
             (pc' = "killed" \/ hist'.io_error # "none" \/ ~stdout_ok')]_vars
    /\ pc = "detect"
          ~> \/ pc \in Terminal
             \/ hist.short_write
             \/ /\ pc = "reset"
                /\ DetectionRecords(file) = hist.fails
                /\ file.synced = Len(file.content)
    /\ (pc = "reset" /\ total_checks <= MaxChecks)
          ~> \/ pc \in Terminal
             \/ /\ pc \in {"sleep", "detect"}
                /\ hist.cycle_checks >= 1

\* The exits of the loop that C15 does not name: the panic of line 190 when
\* the wall clock reads before the Unix epoch at a detection.  Every other
\* exit is an I/O error on the log or on stdout or a kill, and the progress
\* of C15 holds.
C15_LoopEndsOnlyByErrorKillOrClock ==
    /\ [][(pc \in LoopPcs /\ pc' \in Terminal) =>
             \/ pc' = "killed" \/ hist'.io_error # "none" \/ ~stdout_ok'
             \/ pc = "detect" /\ clock < 0]_vars
    /\ pc = "detect"
          ~> \/ pc \in Terminal
             \/ hist.short_write
             \/ /\ pc = "reset"
                /\ DetectionRecords(file) = hist.fails
                /\ file.synced = Len(file.content)

\* C17: the first field of every detection record, session_start_ms, is
\* the wall-clock time of the reset that began the cycle in which the flip
\* was detected.
C17_SessionStartIsArmedTime ==
    EntryBuilt => ParseDecimal(EntryFields[1]) = hist.armed_at

\* What the field holds instead: the time taken once, before the start
\* entry was written (line 138), the first field of the start entry.
C17_SessionStartIsProcessStart ==
    EntryBuilt =>
        /\ ParseDecimal(EntryFields[1]) = unix_timestamp
        /\ EntryFields[1] = SplitOn(file.content, ",")[1]

\* C19: when write(v) or reset() returns, every byte equals v whatever the
\* split of the bytes among the workers and the order of their writes; it
\* returns only when no worker has anything left to write; and while the
\* control thread is outside write (idle, scanning) no worker writes: the
\* buffer then changes only by an outside fault.
C19_ParallelWriteIsAtomic ==
    [][/\ (pc = "par_busy" /\ pc' = "par_idle") =>
             /\ workers.pending = {}
             /\ \A i \in 0 .. (detector'.capacity - 1) :
                    Element(detector', i) = workers.value
             /\ detector'.capacity = detector.capacity
       /\ (pc = "par_idle" /\ detector' # detector) => hist'.op = "fault"
       /\ (pc = "par_idle" /\ pc' = "par_idle") => workers.pending = {}]_vars

\* C19 witness: a write(42) over at least two bytes has returned after
\* every worker of the pool has written some of them.
C19_AllWorkersTookPart ==
    /\ pc = "par_idle"
    /\ hist.op = "write"
    /\ hist.writers = 1 .. NumWorkers
    /\ detector.capacity >= NumWorkers
    /\ detector.default # FillValue
    /\ \A i \in 0 .. (detector.capacity - 1) : Element(detector, i) = FillValue

====
